---- MODULE Spec2Model ----
(***************************************************************************)
(* Model of src/app.py: the journey assignment (assign_journeys), the      *)
(* courier round consolidation (update_courier_rounds) and the total time  *)
(* (calculate_total_time).                                                 *)
(*                                                                         *)
(* Conventions.                                                            *)
(*  - A DataFrame is a sequence of rows; a row is a record of its columns. *)
(*    iloc(df, i) is the 0-based positional access of pandas, so that the  *)
(*    index arithmetic of the source (node - 1, index + 1) is kept as is.  *)
(*  - A Postcode cell is an integer.  Values >= 100 stand for text         *)
(*    postcodes (they never equal a routing node index); small values      *)
(*    stand for numeric cells, which can equal a node index.               *)
(*  - A 'Time to Next Stop' cell is a time of day [hour, minute, second];  *)
(*    a timedelta is a number of seconds.                                  *)
(*  - 'Time of Collection' is total_seconds()/3600 in the source; the      *)
(*    model keeps the numerator, in units of 1/3600 hour.                  *)
(*  - Volumes are in thousandths of a unit (0.036 is 36, 5.3 is 5300).     *)
(***************************************************************************)
EXTENDS Integers, Sequences, FiniteSets, TLC

VARIABLES pc, sample_data, vehicle_routes_data, num_vans, G, transit,
          solution, assigned_journeys,
          courier_in, courier_data, iter_rows, pos, optimized_journeys,
          total_time

vars == <<pc, sample_data, vehicle_routes_data, num_vans, G, transit,
          solution, assigned_journeys,
          courier_in, courier_data, iter_rows, pos, optimized_journeys,
          total_time>>

assignVars == <<sample_data, vehicle_routes_data, num_vans, G, transit,
                solution, assigned_journeys>>

roundVars == <<courier_in, courier_data, iter_rows, pos, optimized_journeys,
               total_time>>

----------------------------------------------------------------------------
(* Bounds of the model *)

MaxStops == 4

MaxVans == 2

MaxCourier == 2

MaxJourneys == 2

----------------------------------------------------------------------------
(* Input domains *)

TransitPostcodes == {0, 1, 101, 102}

SourcePostcodes == {101, 102}

\* The 'Time to Next Stop' cell of the k-th row (0-based) of the transit
\* table: 0:05:00, 1:15:30, 0:25:00, 1:35:30, ...
TimeAt(k) ==
    [hour |-> k % 2, minute |-> (5 + 10 * k) % 60, second |-> (30 * k) % 60]

TransitTables ==
    UNION {{[k \in 1..n |-> [Postcode |-> p[k], TimeToNextStop |-> TimeAt(k - 1)]] :
              p \in [1..n -> TransitPostcodes]} : n \in 0..MaxStops}

\* The k-th row (0-based) of the pathology sample table.
StopRow(k) ==
    [Index |-> k + 1, SourceSurgery |-> 200 + k,
     SourcePostcode |-> 101 + (k % 2),
     DateOfSpecimen |-> 1, TimeOfSpecimen |-> 900 + k]

StopTables == {[k \in 1..n |-> StopRow(k - 1)] : n \in 0..MaxStops}

----------------------------------------------------------------------------
(* pandas / datetime helpers *)

iloc(df, i) == df[i + 1]

timedelta(t) == t.hour * 3600 + t.minute * 60 + t.second

----------------------------------------------------------------------------
(* assign_journeys: the transit graph *)

EmptyGraph == [nodes |-> {}, weight |-> <<>>]

add_edge(g, u, v, w) ==
    [nodes  |-> g.nodes \cup {u, v},
     weight |-> [e \in (DOMAIN g.weight) \cup {<<u, v>>} |->
                    IF e = <<u, v>> THEN w ELSE g.weight[e]]]

RECURSIVE AddEdges(_, _, _)
AddEdges(g, rows, index) ==
    IF index >= Len(rows) THEN g
    ELSE IF index < Len(rows) - 1
         THEN LET row == iloc(rows, index)
                  next_row == iloc(rows, index + 1)
              IN AddEdges(add_edge(g, row.Postcode, next_row.Postcode,
                                   row.TimeToNextStop),
                          rows, index + 1)
         ELSE AddEdges(g, rows, index + 1)

len(g) == Cardinality(g.nodes)

NoCall == [err |-> "no call", weight |-> [hour |-> 0, minute |-> 0, second |-> 0]]

distance_callback(g, from_node, to_node) ==
    IF <<from_node, to_node>> \in DOMAIN g.weight
    THEN [err |-> "none", weight |-> g.weight[<<from_node, to_node>>]]
    ELSE [err |-> "KeyError", weight |-> NoCall.weight]

----------------------------------------------------------------------------
(* assign_journeys: the routing solution *)

None == [found |-> FALSE, routes |-> <<>>]

RECURSIVE Concat(_, _)
Concat(routes, v) ==
    IF v > Len(routes) THEN <<>> ELSE routes[v] \o Concat(routes, v + 1)

\* The sequences without repetition over the non-depot nodes 1..n-1.
RouteSeqs(n) ==
    UNION {{s \in [1..m -> 1..(n - 1)] :
              \A i, j \in 1..m : i # j => s[i] # s[j]} : m \in 0..(n - 1)}

\* What the solver may return on n nodes and V vehicles: every non-depot
\* node on exactly one route.
Solutions(n, V) ==
    {[found |-> TRUE, routes |-> r] : r \in
        {r \in [1..V -> RouteSeqs(n)] :
            /\ Len(Concat(r, 1)) = n - 1
            /\ \A node \in 1..(n - 1) :
                 \E k \in 1..(n - 1) : Concat(r, 1)[k] = node}}

----------------------------------------------------------------------------
(* assign_journeys: the extraction of the journeys *)

VanStartTime_NoReset(previous_total) == previous_total

VanStartTime(previous_total) == 0

RECURSIVE WalkRoute(_, _, _, _)
WalkRoute(route, k, total, van_index) ==
    IF k > Len(route) THEN <<>>
    ELSE LET node == route[k]
             journey_data == iloc(sample_data, node - 1)
             time_to_next_stop ==
                 timedelta(iloc(vehicle_routes_data, node - 1).TimeToNextStop)
             new_total == total + time_to_next_stop
         IN <<[Index            |-> journey_data.Index,
               SourceSurgery    |-> journey_data.SourceSurgery,
               SourcePostcode   |-> journey_data.SourcePostcode,
               DateOfSpecimen   |-> journey_data.DateOfSpecimen,
               TimeOfSpecimen   |-> journey_data.TimeOfSpecimen,
               VanCollecting    |-> van_index + 1,
               TimeOfCollection |-> new_total]>>
            \o WalkRoute(route, k + 1, new_total, van_index)

RECURSIVE ExtractJourneys(_, _, _)
ExtractJourneys(routes, van_index, previous_total) ==
    IF van_index >= Len(routes) THEN <<>>
    ELSE LET start == VanStartTime(previous_total)
             js == WalkRoute(routes[van_index + 1], 1, start, van_index)
             final == IF js = <<>> THEN start
                      ELSE js[Len(js)].TimeOfCollection
         IN js \o ExtractJourneys(routes, van_index + 1, final)

\* pd.DataFrame(journeys): the rows get the index labels 0, 1, 2, ...
DataFrame(rows) ==
    [k \in 1..Len(rows) |->
        [label            |-> k - 1,
         Index            |-> rows[k].Index,
         SourceSurgery    |-> rows[k].SourceSurgery,
         SourcePostcode   |-> rows[k].SourcePostcode,
         DateOfSpecimen   |-> rows[k].DateOfSpecimen,
         TimeOfSpecimen   |-> rows[k].TimeOfSpecimen,
         VanCollecting    |-> rows[k].VanCollecting,
         TimeOfCollection |-> rows[k].TimeOfCollection]]

----------------------------------------------------------------------------
(* assign_journeys: the steps *)

BuildGraph ==
    /\ pc = "start"
    /\ G' = AddEdges(EmptyGraph, vehicle_routes_data, 0)
    /\ pc' = "graph"
    /\ UNCHANGED <<sample_data, vehicle_routes_data, num_vans, transit,
                   solution, assigned_journeys>>
    /\ UNCHANGED roundVars

\* RoutingIndexManager(len(G), num_vans, 0): the depot 0 has to be a node.
InitRouting ==
    /\ pc = "graph"
    /\ pc' = IF len(G) >= 1 THEN "routing" ELSE "failed"
    /\ UNCHANGED assignVars
    /\ UNCHANGED roundVars

\* The solver evaluates the arc cost of a pair of route nodes.
DistanceCallback ==
    /\ pc = "routing"
    /\ \E from_node \in 0..(len(G) - 1), to_node \in 0..(len(G) - 1) :
         transit' = distance_callback(G, from_node, to_node)
    /\ UNCHANGED <<pc, sample_data, vehicle_routes_data, num_vans, G,
                   solution, assigned_journeys>>
    /\ UNCHANGED roundVars

SolveWithParameters ==
    /\ pc = "routing"
    /\ solution' \in Solutions(len(G), num_vans) \cup {None}
    /\ transit' = NoCall
    /\ pc' = "solved"
    /\ UNCHANGED <<sample_data, vehicle_routes_data, num_vans, G,
                   assigned_journeys>>
    /\ UNCHANGED roundVars

\* The loop of lines 52-76 and the return.  Without a solution,
\* solution.Value fails; a node beyond the sample table fails in iloc.
Extract ==
    /\ pc = "solved"
    /\ IF solution.found /\ len(G) - 1 <= Len(sample_data)
       THEN /\ assigned_journeys' = DataFrame(ExtractJourneys(solution.routes, 0, 0))
            /\ pc' = "assigned"
       ELSE /\ pc' = "failed"
            /\ UNCHANGED assigned_journeys
    /\ UNCHANGED <<sample_data, vehicle_routes_data, num_vans, G, transit,
                   solution>>
    /\ UNCHANGED roundVars

RoundsIdle ==
    /\ courier_in = <<>>
    /\ courier_data = <<>>
    /\ iter_rows = <<>>
    /\ pos = 0
    /\ optimized_journeys = <<>>
    /\ total_time = [err |-> "no call", seconds |-> 0]

Init ==
    /\ pc = "start"
    /\ vehicle_routes_data \in TransitTables
    /\ sample_data \in StopTables
    /\ num_vans \in 1..MaxVans
    /\ G = EmptyGraph
    /\ transit = NoCall
    /\ solution = None
    /\ assigned_journeys = <<>>
    /\ RoundsIdle

Next ==
    \/ BuildGraph
    \/ InitRouting
    \/ DistanceCallback
    \/ SolveWithParameters
    \/ Extract

Spec == Init /\ [][Next]_vars

----------------------------------------------------------------------------
(* update_courier_rounds and calculate_total_time: input domains *)

Tasks == {"Spare time", "Deliver/Collect post", "Deliver"}

Volumes == {5000, 5250, 5290}

\* The k-th entry (1-based) of the courier rounds table.
CourierEntry(k, c) ==
    [RoundID |-> k, VehicleID |-> 10 + k, Time |-> 800 + k,
     Location |-> 300 + k, Postcode |-> c.Postcode, Task |-> c.Task,
     Volume |-> c.Volume]

CourierTables ==
    UNION {{[k \in 1..n |-> CourierEntry(k, c[k])] :
              c \in [1..n -> [Postcode : SourcePostcodes, Task : Tasks,
                              Volume : Volumes]]} : n \in 0..MaxCourier}

\* The row of label k of the assigned journeys (the columns of line 48-50).
JourneyRow(k, p) ==
    [label |-> k, Index |-> k + 1, SourceSurgery |-> 200 + k,
     SourcePostcode |-> p, DateOfSpecimen |-> 1, TimeOfSpecimen |-> 900 + k,
     VanCollecting |-> 1, TimeOfCollection |-> 300 * (k + 1)]

JourneyTables ==
    UNION {{[k \in 1..n |-> JourneyRow(k - 1, p[k])] :
              p \in [1..n -> SourcePostcodes]} : n \in 0..MaxJourneys}

----------------------------------------------------------------------------
(* update_courier_rounds *)

sample_volume == 36

Capacity == 5300

\* row['Source Postcode'] in courier_data['Postcode'].values
PostcodeIn(postcode, courier) ==
    \E i \in 1..Len(courier) : courier[i].Postcode = postcode

FirstMatch_Last(courier, postcode) ==
    courier[CHOOSE i \in 1..Len(courier) :
              /\ courier[i].Postcode = postcode
              /\ \A j \in 1..Len(courier) :
                   courier[j].Postcode = postcode => j <= i]

\* courier_data[courier_data['Postcode'] == postcode].iloc[0]
FirstMatch(courier, postcode) ==
    courier[CHOOSE i \in 1..Len(courier) :
              /\ courier[i].Postcode = postcode
              /\ \A j \in 1..Len(courier) :
                   courier[j].Postcode = postcode => i <= j]

TaskAllowsCollection(task) ==
    task = "Spare time" \/ task = "Deliver/Collect post"

HasSpace_IgnoringSample(volume) == volume <= Capacity

HasSpace(volume) == volume + sample_volume <= Capacity

NewEntry_SummedVolume(courier_stop, row) ==
    [RoundID   |-> courier_stop.RoundID,
     VehicleID |-> courier_stop.VehicleID,
     Time      |-> row.TimeOfSpecimen,
     Location  |-> row.SourceSurgery,
     Postcode  |-> row.SourcePostcode,
     Task      |-> "Collect samples",
     Volume    |-> courier_stop.Volume + sample_volume]

NewEntry(courier_stop, row) ==
    [RoundID   |-> courier_stop.RoundID,
     VehicleID |-> courier_stop.VehicleID,
     Time      |-> row.TimeOfSpecimen,
     Location  |-> row.SourceSurgery,
     Postcode  |-> row.SourcePostcode,
     Task      |-> "Collect samples",
     Volume    |-> sample_volume]

\* optimized_journeys.drop(index, inplace=True)
drop(journeys, index) == SelectSeq(journeys, LAMBDA r : r.label # index)

\* One iteration of the loop of line 88.  iterrows walks the rows the frame
\* had when the loop started (iter_rows); drop replaces the frame's data.
UpdateCourierRoundsStep ==
    /\ pc = "update"
    /\ pos < Len(iter_rows)
    /\ LET row == iloc(iter_rows, pos)
       IN IF PostcodeIn(row.SourcePostcode, courier_data)
          THEN LET courier_stop == FirstMatch(courier_data, row.SourcePostcode)
               IN IF TaskAllowsCollection(courier_stop.Task)
                     /\ HasSpace(courier_stop.Volume)
                  THEN /\ courier_data' =
                            Append(courier_data, NewEntry(courier_stop, row))
                       /\ optimized_journeys' =
                            drop(optimized_journeys, row.label)
                  ELSE UNCHANGED <<courier_data, optimized_journeys>>
          ELSE UNCHANGED <<courier_data, optimized_journeys>>
    /\ pos' = pos + 1
    /\ UNCHANGED <<pc, courier_in, iter_rows, total_time>>
    /\ UNCHANGED assignVars

UpdateCourierRoundsReturn ==
    /\ pc = "update"
    /\ pos = Len(iter_rows)
    /\ pc' = "updated"
    /\ UNCHANGED roundVars
    /\ UNCHANGED assignVars

----------------------------------------------------------------------------
(* calculate_total_time *)

\* The loop of line 115; route_row['Time to Next Stop'] is a KeyError on a
\* row that has no such column.
RECURSIVE SumRows(_, _, _)
SumRows(journeys, k, total) ==
    IF k > Len(journeys) THEN [err |-> "none", seconds |-> total]
    ELSE LET route_row == journeys[k]
         IN IF "TimeToNextStop" \in DOMAIN route_row
            THEN SumRows(journeys, k + 1,
                         total + timedelta(route_row.TimeToNextStop))
            ELSE [err |-> "KeyError", seconds |-> 0]

calculate_total_time(journeys) == SumRows(journeys, 1, 0)

CalculateTotalTime ==
    /\ pc = "updated"
    /\ total_time' = calculate_total_time(optimized_journeys)
    /\ pc' = "done"
    /\ UNCHANGED <<courier_in, courier_data, iter_rows, pos,
                   optimized_journeys>>
    /\ UNCHANGED assignVars

\* main, line 177: the courier table as read and the journeys as assigned
\* enter update_courier_rounds.
InitRounds ==
    /\ pc = "update"
    /\ courier_in \in CourierTables
    /\ courier_data = courier_in
    /\ optimized_journeys \in JourneyTables
    /\ iter_rows = optimized_journeys
    /\ pos = 0
    /\ total_time = [err |-> "no call", seconds |-> 0]
    /\ sample_data = <<>>
    /\ vehicle_routes_data = <<>>
    /\ num_vans = 1
    /\ G = EmptyGraph
    /\ transit = NoCall
    /\ solution = None
    /\ assigned_journeys = <<>>

NextRounds ==
    \/ UpdateCourierRoundsStep
    \/ UpdateCourierRoundsReturn
    \/ CalculateTotalTime

SpecRounds == InitRounds /\ [][NextRounds]_vars

----------------------------------------------------------------------------
(* Claims about assign_journeys, checked under Spec *)

\* C6: when the solver returns a solution, the emitted journeys contain
\* every stop of the stop table exactly once (none twice, none omitted).
\* Stated for the inputs that favour the code most: a transit table of one
\* depot row followed by one row per stop of the stop table.
C6_EveryStopExactlyOnce ==
    (pc = "assigned" /\ Len(vehicle_routes_data) = Len(sample_data) + 1) =>
        \A s \in 1..Len(sample_data) :
            Cardinality({k \in 1..Len(assigned_journeys) :
                           assigned_journeys[k].Index = sample_data[s].Index}) = 1

\* C7: for every van the Time of Collection values are non-decreasing in
\* visit order, and the van's accumulator starts from zero: its first
\* Time of Collection is the one duration added at its first visit,
\* whatever the earlier vans accumulated.
C7_NonDecreasingAndReset ==
    pc = "assigned" =>
        \A v \in 1..num_vans :
            LET J == SelectSeq(assigned_journeys, LAMBDA j : j.VanCollecting = v)
                route == solution.routes[v]
            IN /\ Len(J) = Len(route)
               /\ \A k \in 1..(Len(J) - 1) :
                    J[k].TimeOfCollection <= J[k + 1].TimeOfCollection
               /\ Len(J) >= 1 =>
                    J[1].TimeOfCollection =
                      timedelta(iloc(vehicle_routes_data, route[1] - 1).TimeToNextStop)

\* C7 witness: van 1 has collected two stops (its clock is past zero) and
\* van 2 then collects one.
C7_Witness ==
    /\ pc = "assigned"
    /\ num_vans = 2
    /\ Len(solution.routes[1]) = 2
    /\ Len(solution.routes[2]) = 1
    /\ assigned_journeys[2].TimeOfCollection > assigned_journeys[1].TimeOfCollection
    /\ assigned_journeys[3].VanCollecting = 2

\* C8: the graph of a transit table of N stops has exactly N nodes and
\* exactly N-1 edges, one from each non-terminal stop to its immediate
\* successor weighted by that stop's 'Time to Next Stop', and no edge out of
\* the final stop, also when two rows carry the same Postcode.
C8_GraphIsChainOfNStops ==
    (pc # "start" /\ Len(vehicle_routes_data) >= 1) =>
        LET N == Len(vehicle_routes_data)
            P(i) == iloc(vehicle_routes_data, i).Postcode
        IN /\ len(G) = N
           /\ Cardinality(DOMAIN G.weight) = N - 1
           /\ \A i \in 0..(N - 2) :
                /\ <<P(i), P(i + 1)>> \in DOMAIN G.weight
                /\ G.weight[<<P(i), P(i + 1)>>] =
                     iloc(vehicle_routes_data, i).TimeToNextStop
           /\ \A e \in DOMAIN G.weight : e[1] # P(N - 1)

\* C9: the transit-cost callback returns a defined cost for every ordered
\* pair of route nodes the solver asks about (the edge weight, or a fixed
\* fallback cost when the graph has no such edge); it never fails.
C9_CallbackAlwaysDefined ==
    (pc = "routing" /\ transit.err # "no call") => transit.err = "none"

\* C10: at each visited non-depot node the amount added to the running
\* collection time is the 'Time to Next Stop' of the node the van just
\* departed from in its route (the depot for the first visit).
C10_KeyedByDepartedNode ==
    pc = "assigned" =>
        \A v \in 1..num_vans :
            LET J == SelectSeq(assigned_journeys, LAMBDA j : j.VanCollecting = v)
                route == solution.routes[v]
            IN \A k \in 1..Len(J) :
                 LET departed == IF k = 1 THEN 0 ELSE route[k - 1]
                     before == IF k = 1 THEN 0 ELSE J[k - 1].TimeOfCollection
                 IN J[k].TimeOfCollection - before =
                      timedelta(iloc(vehicle_routes_data, departed).TimeToNextStop)

----------------------------------------------------------------------------
(* Claims about update_courier_rounds and calculate_total_time, checked    *)
(* under SpecRounds                                                        *)

\* C1: for every courier entry used as a fold-in target, its volume plus
\* 0.036 for each 'Collect samples' entry appended with its Round ID and
\* Vehicle ID never exceeds 5.3, provided it did not exceed 5.3 before.
C1_TargetNeverOverfilled ==
    pc \in {"update", "updated", "done"} =>
        \A i \in 1..Len(courier_in) :
            LET appended ==
                    {k \in (Len(courier_in) + 1)..Len(courier_data) :
                        /\ courier_data[k].Task = "Collect samples"
                        /\ courier_data[k].RoundID = courier_in[i].RoundID
                        /\ courier_data[k].VehicleID = courier_in[i].VehicleID}
            IN courier_in[i].Volume <= 5300 =>
                 courier_in[i].Volume + 36 * Cardinality(appended) <= 5300

\* C2: a journey the pass has processed is removed if and only if the first
\* entry, by original table order, whose Postcode equals its Source Postcode
\* has task 'Spare time' or 'Deliver/Collect post' and volume + 0.036 <= 5.3;
\* an appended entry never carries the identifiers of a later entry of the
\* same postcode.
C2_RemovedIffFirstMatchPasses ==
    pc \in {"update", "updated", "done"} =>
        /\ \A k \in 1..pos :
             LET row == iter_rows[k]
                 matches == {i \in 1..Len(courier_in) :
                               courier_in[i].Postcode = row.SourcePostcode}
                 removed == \A j \in 1..Len(optimized_journeys) :
                               optimized_journeys[j].label # row.label
             IN removed <=>
                  /\ matches # {}
                  /\ LET first == courier_in[CHOOSE i \in matches :
                                               \A j \in matches : i <= j]
                     IN /\ first.Task \in {"Spare time", "Deliver/Collect post"}
                        /\ first.Volume + 36 <= 5300
        /\ \A k \in (Len(courier_in) + 1)..Len(courier_data) :
             \A i \in 1..Len(courier_in) :
                 courier_data[k].RoundID = courier_in[i].RoundID =>
                     /\ courier_in[i].Postcode = courier_data[k].Postcode
                     /\ \A j \in 1..(i - 1) :
                          courier_in[j].Postcode # courier_data[k].Postcode

\* C2 witness: two entries share the journey's postcode, the first fails the
\* task test, the second would pass both tests, and the journey is kept.
C2_Witness ==
    /\ pc = "updated"
    /\ Len(courier_in) = 2
    /\ Len(iter_rows) >= 1
    /\ courier_in[1].Postcode = iter_rows[1].SourcePostcode
    /\ courier_in[2].Postcode = iter_rows[1].SourcePostcode
    /\ courier_in[1].Task = "Deliver"
    /\ courier_in[2].Task = "Spare time"
    /\ courier_in[2].Volume = 5000
    /\ \E j \in 1..Len(optimized_journeys) : optimized_journeys[j] = iter_rows[1]

\* C3: the courier table is the original table, values and order kept,
\* followed by exactly one entry per removed journey, in the order of
\* removal: task 'Collect samples', volume 0.036, the Round ID and Vehicle ID
\* of an original entry of the journey's postcode, and the journey's Time of
\* Specimen, Source Surgery and Source Postcode; the journeys left are the
\* original ones without the removed ones.
C3_OneEntryPerRemovedJourney ==
    pc \in {"update", "updated", "done"} =>
        LET n0 == Len(courier_in)
            gone(r) == \A j \in 1..Len(optimized_journeys) :
                          optimized_journeys[j].label # r.label
            removed == SelectSeq(iter_rows, gone)
            kept == SelectSeq(iter_rows, LAMBDA r : ~gone(r))
        IN /\ Len(courier_data) = n0 + Len(removed)
           /\ SubSeq(courier_data, 1, n0) = courier_in
           /\ optimized_journeys = kept
           /\ Len(iter_rows) - Len(optimized_journeys) = Len(courier_data) - n0
           /\ \A k \in 1..Len(removed) :
                LET e == courier_data[n0 + k]
                    r == removed[k]
                IN /\ e.Task = "Collect samples"
                   /\ e.Volume = 36
                   /\ e.Time = r.TimeOfSpecimen
                   /\ e.Location = r.SourceSurgery
                   /\ e.Postcode = r.SourcePostcode
                   /\ \E i \in 1..n0 :
                        /\ courier_in[i].Postcode = r.SourcePostcode
                        /\ e.RoundID = courier_in[i].RoundID
                        /\ e.VehicleID = courier_in[i].VehicleID

\* C3 witness: the scenario of a 'Spare time' entry of volume 5.0; one of two
\* journeys has been folded into it, the other one is left.
C3_Witness ==
    /\ pc = "updated"
    /\ Len(courier_in) >= 1
    /\ courier_in[1].Task = "Spare time"
    /\ courier_in[1].Volume = 5000
    /\ Len(iter_rows) = 2
    /\ Len(optimized_journeys) = 1
    /\ Len(courier_data) = Len(courier_in) + 1
    /\ courier_data[Len(courier_data)].RoundID = courier_in[1].RoundID

\* C4: a processed journey whose Source Postcode matches no entry, or whose
\* first matching entry fails the task test or the capacity test, is still
\* in the journeys and no entry has been appended for it; with an empty
\* courier table the pass returns the journeys and the table unmodified.
C4_UnconsolidatedJourneysStay ==
    pc \in {"update", "updated", "done"} =>
        /\ \A k \in 1..pos :
             LET row == iter_rows[k]
                 matches == {i \in 1..Len(courier_in) :
                               courier_in[i].Postcode = row.SourcePostcode}
                 fails ==
                     \/ matches = {}
                     \/ LET first == courier_in[CHOOSE i \in matches :
                                                  \A j \in matches : i <= j]
                        IN \/ first.Task \notin {"Spare time", "Deliver/Collect post"}
                           \/ first.Volume + 36 > 5300
             IN fails =>
                  /\ \E j \in 1..Len(optimized_journeys) :
                       optimized_journeys[j] = row
                  /\ \A i \in 1..Len(courier_data) :
                       courier_data[i].Location # row.SourceSurgery
        /\ (courier_in = <<>> /\ pc \in {"updated", "done"}) =>
             /\ courier_data = <<>>
             /\ optimized_journeys = iter_rows

\* C4 witness: the first matching entry has an allowed task but volume 5.29
\* (5.29 + 0.036 > 5.3), and the journey is left after the pass.
C4_Witness ==
    /\ pc = "updated"
    /\ Len(courier_in) >= 1
    /\ Len(iter_rows) >= 1
    /\ courier_in[1].Postcode = iter_rows[1].SourcePostcode
    /\ courier_in[1].Task = "Deliver/Collect post"
    /\ courier_in[1].Volume = 5290
    /\ optimized_journeys = iter_rows
    /\ courier_data = courier_in

\* C5: on the final (post-consolidation) journey set, calculate_total_time
\* yields a duration and not an error whenever the set is non-empty (the
\* sum over the stops still present), and the zero duration on an empty set.
C5_TotalTimeIsADuration ==
    pc = "done" =>
        /\ optimized_journeys # <<>> => total_time.err = "none"
        /\ optimized_journeys = <<>> =>
             (total_time.err = "none" /\ total_time.seconds = 0)

====
